---- MODULE Spec2Model ----
(***************************************************************************)
(* A model of sbpy's DASTCOM5 reader (sbpy/data/utils/dastcom5.py): the   *)
(* fixed-layout binary record store, its name index, the archive fetch    *)
(* and the record schemas; of the Vega-based unit equivalencies           *)
(* (sbpy/units/core.py) and the default Vega spectrum                      *)
(* (sbpy/spectroscopy/vega/core.py); and of the Scattered coma model as    *)
(* its test uses it (sbpy/spectroscopy/tests/test_coma.py).                *)
(*                                                                         *)
(* The specifications share the variables:                                 *)
(*   Spec        the record store: read_headers, read_record, the bulk     *)
(*               reads and the merged view over one on-disk archive;       *)
(*   SpecName    the name index search;                                    *)
(*   SpecFetch   download_dastcom5 over the local file system;             *)
(*   SpecSchema  decoding one record-sized byte block with a schema;       *)
(*   SpecLookups every lookup and bulk read over one small archive;        *)
(*   SpecUnits   the equivalency functions and conversions through them;   *)
(*   SpecVega    the default_vega science state;                           *)
(*   SpecComa    one Scattered model, built, changed and evaluated.        *)
(* Each specification leaves the other parts' variables at rest.           *)
(***************************************************************************)
EXTENDS Integers, Sequences, FiniteSets

VARIABLES
    ast_file,   \* dast5_le.dat: its length in bytes and its header fields
    com_file,   \* dcom5_le.dat: its length in bytes and its header fields
    ret,        \* what the last store operation returned or raised
    handles,    \* per file, the number of handles open on it
    idx,        \* dastcom.idx: the sequence of its lines
    found,      \* what the last name search returned or raised
    history,    \* per query, what its first record_from_name call gave
    fs,         \* the local file system under ~/.sbpy
    fetched,    \* what the last download_dastcom5 call did
    block,      \* a byte block of one record size, and the schema to use
    decoded,    \* the fields decoded from block
    encoded,    \* the bytes written back from decoded
    synphot,    \* whether the synphot package can be imported
    eqv,        \* what the last equivalency function returned or raised
    eqv_prev,   \* what the call before it returned or raised
    conv,       \* a value converted forward and back with eqv
    default_vega,   \* the default_vega science state: its _value
    vega_ret,   \* what the last default_vega call returned or raised
    coma,       \* a Scattered model: its ephemeris and parameters
    coma_out,   \* the last evaluation of coma
    coma_prev   \* the evaluation before it

vars == <<ast_file, com_file, ret, handles, idx, found, history, fs, fetched,
          block, decoded, encoded, synphot, eqv, eqv_prev, conv,
          default_vega, vega_ret, coma, coma_out, coma_prev>>

storeVars == <<ast_file, com_file, ret>>
nameVars == <<idx, found, history>>
fetchVars == <<fs, fetched>>
schemaVars == <<block, decoded, encoded>>
unitsVars == <<synphot, eqv, eqv_prev, conv>>
vegaVars == <<default_vega, vega_ret>>
comaVars == <<coma, coma_out, coma_prev>>
archiveVars == <<ast_file, com_file, ret, handles, idx, found, history, fs,
                 fetched, block, decoded, encoded>>

(***************************************************************************)
(* The record schemas: each field is <<name, kind, bytes>>, kind "i" a     *)
(* little-endian signed integer, "f" an IEEE float, "S" a byte string.     *)
(***************************************************************************)
AST_DTYPE ==
    <<
      <<"NO", "i", 4>>, <<"NOBS", "i", 4>>, <<"OBSFRST", "i", 4>>,
      <<"OBSLAST", "i", 4>>, <<"EPOCH", "f", 8>>, <<"CALEPO", "f", 8>>,
      <<"MA", "f", 8>>, <<"W", "f", 8>>, <<"OM", "f", 8>>, <<"IN", "f", 8>>,
      <<"EC", "f", 8>>, <<"A", "f", 8>>, <<"QR", "f", 8>>, <<"TP", "f", 8>>,
      <<"TPCAL", "f", 8>>, <<"TPFRAC", "f", 8>>, <<"SOLDAT", "f", 8>>,
      <<"SRC1", "f", 8>>, <<"SRC2", "f", 8>>, <<"SRC3", "f", 8>>,
      <<"SRC4", "f", 8>>, <<"SRC5", "f", 8>>, <<"SRC6", "f", 8>>,
      <<"SRC7", "f", 8>>, <<"SRC8", "f", 8>>, <<"SRC9", "f", 8>>,
      <<"SRC10", "f", 8>>, <<"SRC11", "f", 8>>, <<"SRC12", "f", 8>>,
      <<"SRC13", "f", 8>>, <<"SRC14", "f", 8>>, <<"SRC15", "f", 8>>,
      <<"SRC16", "f", 8>>, <<"SRC17", "f", 8>>, <<"SRC18", "f", 8>>,
      <<"SRC19", "f", 8>>, <<"SRC20", "f", 8>>, <<"SRC21", "f", 8>>,
      <<"SRC22", "f", 8>>, <<"SRC23", "f", 8>>, <<"SRC24", "f", 8>>,
      <<"SRC25", "f", 8>>, <<"SRC26", "f", 8>>, <<"SRC27", "f", 8>>,
      <<"SRC28", "f", 8>>, <<"SRC29", "f", 8>>, <<"SRC30", "f", 8>>,
      <<"SRC31", "f", 8>>, <<"SRC32", "f", 8>>, <<"SRC33", "f", 8>>,
      <<"SRC34", "f", 8>>, <<"SRC35", "f", 8>>, <<"SRC36", "f", 8>>,
      <<"SRC37", "f", 8>>, <<"SRC38", "f", 8>>, <<"SRC39", "f", 8>>,
      <<"SRC40", "f", 8>>, <<"SRC41", "f", 8>>, <<"SRC42", "f", 8>>,
      <<"SRC43", "f", 8>>, <<"SRC44", "f", 8>>, <<"SRC45", "f", 8>>,
      <<"PRELTV", "i", 1>>, <<"SPHMX3", "i", 1>>, <<"SPHMX5", "i", 1>>,
      <<"JGSEP", "i", 1>>, <<"TWOBOD", "i", 1>>, <<"NSATS", "i", 1>>,
      <<"UPARM", "i", 1>>, <<"LSRC", "i", 1>>, <<"NDEL", "i", 2>>,
      <<"NDOP", "i", 2>>, <<"H", "f", 4>>, <<"G", "f", 4>>, <<"A1", "f", 4>>,
      <<"A2", "f", 4>>, <<"A3", "f", 4>>, <<"R0", "f", 4>>, <<"ALN", "f", 4>>,
      <<"NM", "f", 4>>, <<"NN", "f", 4>>, <<"NK", "f", 4>>, <<"LGK", "f", 4>>,
      <<"RHO", "f", 4>>, <<"AMRAT", "f", 4>>, <<"ALF", "f", 4>>,
      <<"DEL", "f", 4>>, <<"SPHLM3", "f", 4>>, <<"SPHLM5", "f", 4>>,
      <<"RP", "f", 4>>, <<"GM", "f", 4>>, <<"RAD", "f", 4>>,
      <<"EXTNT1", "f", 4>>, <<"EXTNT2", "f", 4>>, <<"EXTNT3", "f", 4>>,
      <<"MOID", "f", 4>>, <<"ALBEDO", "f", 4>>, <<"BVCI", "f", 4>>,
      <<"UBCI", "f", 4>>, <<"IRCI", "f", 4>>, <<"RMSW", "f", 4>>,
      <<"RMSU", "f", 4>>, <<"RMSN", "f", 4>>, <<"RMSNT", "f", 4>>,
      <<"RMSH", "f", 4>>, <<"EQUNOX", "S", 4>>, <<"PENAM", "S", 6>>,
      <<"SBNAM", "S", 12>>, <<"SPTYPT", "S", 5>>, <<"SPTYPS", "S", 5>>,
      <<"DARC", "S", 9>>, <<"COMNT1", "S", 41>>, <<"COMNT2", "S", 80>>,
      <<"DESIG", "S", 13>>, <<"ASTEST", "S", 8>>, <<"IREF", "S", 10>>,
      <<"ASTNAM", "S", 18>>
    >>

COM_DTYPE ==
    <<
      <<"NO", "i", 4>>, <<"NOBS", "i", 4>>, <<"OBSFRST", "i", 4>>,
      <<"OBSLAST", "i", 4>>, <<"EPOCH", "f", 8>>, <<"CALEPO", "f", 8>>,
      <<"MA", "f", 8>>, <<"W", "f", 8>>, <<"OM", "f", 8>>, <<"IN", "f", 8>>,
      <<"EC", "f", 8>>, <<"A", "f", 8>>, <<"QR", "f", 8>>, <<"TP", "f", 8>>,
      <<"TPCAL", "f", 8>>, <<"TPFRAC", "f", 8>>, <<"SOLDAT", "f", 8>>,
      <<"SRC1", "f", 8>>, <<"SRC2", "f", 8>>, <<"SRC3", "f", 8>>,
      <<"SRC4", "f", 8>>, <<"SRC5", "f", 8>>, <<"SRC6", "f", 8>>,
      <<"SRC7", "f", 8>>, <<"SRC8", "f", 8>>, <<"SRC9", "f", 8>>,
      <<"SRC10", "f", 8>>, <<"SRC11", "f", 8>>, <<"SRC12", "f", 8>>,
      <<"SRC13", "f", 8>>, <<"SRC14", "f", 8>>, <<"SRC15", "f", 8>>,
      <<"SRC16", "f", 8>>, <<"SRC17", "f", 8>>, <<"SRC18", "f", 8>>,
      <<"SRC19", "f", 8>>, <<"SRC20", "f", 8>>, <<"SRC21", "f", 8>>,
      <<"SRC22", "f", 8>>, <<"SRC23", "f", 8>>, <<"SRC24", "f", 8>>,
      <<"SRC25", "f", 8>>, <<"SRC26", "f", 8>>, <<"SRC27", "f", 8>>,
      <<"SRC28", "f", 8>>, <<"SRC29", "f", 8>>, <<"SRC30", "f", 8>>,
      <<"SRC31", "f", 8>>, <<"SRC32", "f", 8>>, <<"SRC33", "f", 8>>,
      <<"SRC34", "f", 8>>, <<"SRC35", "f", 8>>, <<"SRC36", "f", 8>>,
      <<"SRC37", "f", 8>>, <<"SRC38", "f", 8>>, <<"SRC39", "f", 8>>,
      <<"SRC40", "f", 8>>, <<"SRC41", "f", 8>>, <<"SRC42", "f", 8>>,
      <<"SRC43", "f", 8>>, <<"SRC44", "f", 8>>, <<"SRC45", "f", 8>>,
      <<"SRC46", "f", 8>>, <<"SRC47", "f", 8>>, <<"SRC48", "f", 8>>,
      <<"SRC49", "f", 8>>, <<"SRC50", "f", 8>>, <<"SRC51", "f", 8>>,
      <<"SRC52", "f", 8>>, <<"SRC53", "f", 8>>, <<"SRC54", "f", 8>>,
      <<"SRC55", "f", 8>>, <<"PRELTV", "i", 1>>, <<"SPHMX3", "i", 1>>,
      <<"SPHMX5", "i", 1>>, <<"JGSEP", "i", 1>>, <<"TWOBOD", "i", 1>>,
      <<"NSATS", "i", 1>>, <<"UPARM", "i", 1>>, <<"LSRC", "i", 1>>,
      <<"IPYR", "i", 2>>, <<"NDEL", "i", 2>>, <<"NDOP", "i", 2>>,
      <<"NOBSMT", "i", 2>>, <<"NOBSMN", "i", 2>>, <<"H", "f", 4>>,
      <<"G", "f", 4>>, <<"M1 (MT)", "f", 4>>, <<"M2 (MN)", "f", 4>>,
      <<"K1 (MTSMT)", "f", 4>>, <<"K2 (MNSMT)", "f", 4>>,
      <<"PHCOF (MNP)", "f", 4>>, <<"A1", "f", 4>>, <<"A2", "f", 4>>,
      <<"A3", "f", 4>>, <<"DT", "f", 4>>, <<"R0", "f", 4>>, <<"ALN", "f", 4>>,
      <<"NM", "f", 4>>, <<"NN", "f", 4>>, <<"NK", "f", 4>>, <<"S0", "f", 4>>,
      <<"TCL", "f", 4>>, <<"RHO", "f", 4>>, <<"AMRAT", "f", 4>>,
      <<"AJ1", "f", 4>>, <<"AJ2", "f", 4>>, <<"ET1", "f", 4>>,
      <<"ET2", "f", 4>>, <<"DTH", "f", 4>>, <<"ALF", "f", 4>>,
      <<"DEL", "f", 4>>, <<"SPHLM3", "f", 4>>, <<"SPHLM5", "f", 4>>,
      <<"RP", "f", 4>>, <<"GM", "f", 4>>, <<"RAD", "f", 4>>,
      <<"EXTNT1", "f", 4>>, <<"EXTNT2", "f", 4>>, <<"EXTNT3", "f", 4>>,
      <<"MOID", "f", 4>>, <<"ALBEDO", "f", 4>>, <<"RMSW", "f", 4>>,
      <<"RMSU", "f", 4>>, <<"RMSN", "f", 4>>, <<"RMSNT", "f", 4>>,
      <<"RMSMT", "f", 4>>, <<"RMSMN", "f", 4>>, <<"EQUNOX", "S", 4>>,
      <<"PENAM", "S", 6>>, <<"SBNAM", "S", 12>>, <<"DARC", "S", 9>>,
      <<"COMNT3", "S", 49>>, <<"COMNT2", "S", 80>>, <<"DESIG", "S", 13>>,
      <<"COMEST", "S", 14>>, <<"IREF", "S", 10>>, <<"COMNAM", "S", 29>>
    >>

ast_dtype ==
    <<
      <<"IBIAS1", "i", 4>>, <<"BEGINP1", "S", 8>>, <<"BEGINP2", "S", 8>>,
      <<"BEGINP3", "S", 8>>, <<"ENDPT1", "S", 8>>, <<"ENDPT2", "S", 8>>,
      <<"ENDPT3", "S", 8>>, <<"CALDATE", "S", 19>>, <<"JDDATE", "f", 8>>,
      <<"FTYP", "S", 1>>, <<"BYTE2A", "i", 2>>, <<"IBIAS0", "i", 4>>
    >>

com_dtype ==
    <<
      <<"IBIAS2", "i", 4>>, <<"BEGINP1", "S", 8>>, <<"BEGINP2", "S", 8>>,
      <<"BEGINP3", "S", 8>>, <<"ENDPT1", "S", 8>>, <<"ENDPT2", "S", 8>>,
      <<"ENDPT3", "S", 8>>, <<"CALDATE", "S", 19>>, <<"JDDATE", "f", 8>>,
      <<"FTYP", "S", 1>>, <<"BYTE2C", "i", 2>>
    >>

(***************************************************************************)
(* Bounds of the model.                                                    *)
(***************************************************************************)
\* The largest number of whole record slots (header slot included) in a file.
MaxSlots == 3
\* The largest boundary marker (ENDPT1, ENDPT2) of a header.
MaxRec == 2

(***************************************************************************)
(* Literals of the reader.                                                 *)
(***************************************************************************)
\* read_record: the stride of asteroid and of comet records.
AstStride == 835
ComStride == 976
\* asteroid_db, comet_db: where the bulk reads start.
AstSeek == 835
ComSeek == 976
\* The width of a boundary marker field of a header ("|S8").
MarkerWidth == 8

(***************************************************************************)
(* numpy's packed layout: a field starts where the one before it ends.     *)
(***************************************************************************)
\* The bytes of fields lo..hi together (summed by halves).
RECURSIVE SumWidths(_, _, _)
SumWidths(dtype, lo, hi) ==
    IF lo > hi THEN 0
    ELSE IF lo = hi THEN dtype[lo][3]
    ELSE LET mid == (lo + hi) \div 2
         IN  SumWidths(dtype, lo, mid) + SumWidths(dtype, mid + 1, hi)

\* A variant whose running sum takes in the field itself.
FieldOffset_inclusive(dtype, k) == SumWidths(dtype, 1, k)

\* The offset of field k (1-based) in an item: the bytes of the fields
\* before it.
FieldOffset(dtype, k) == SumWidths(dtype, 1, k - 1)

\* A variant with the size padded to a multiple of 8 bytes.
ItemSize_aligned(dtype) ==
    LET size == FieldOffset(dtype, Len(dtype)) + dtype[Len(dtype)][3]
    IN  ((size + 7) \div 8) * 8

\* The size of an item: the end of its last field.
ItemSize(dtype) == FieldOffset(dtype, Len(dtype)) + dtype[Len(dtype)][3]

\* The dtype objects: the field list with its name, the offset of each
\* field and the item size.
RECURSIVE Offsets(_, _, _)
Offsets(fields, lo, hi) ==
    IF lo > hi THEN <<>>
    ELSE IF lo = hi THEN <<FieldOffset(fields, lo)>>
    ELSE LET mid == (lo + hi) \div 2
         IN  Offsets(fields, lo, mid) \o Offsets(fields, mid + 1, hi)

DtypeOf(name, fields) ==
    [name |-> name, fields |-> fields,
     offsets |-> Offsets(fields, 1, Len(fields)),
     itemsize |-> ItemSize(fields)]

AstDtype == DtypeOf("AST_DTYPE", AST_DTYPE)
ComDtype == DtypeOf("COM_DTYPE", COM_DTYPE)
AstHeaderDtype == DtypeOf("ast_dtype", ast_dtype)
ComHeaderDtype == DtypeOf("com_dtype", com_dtype)

(***************************************************************************)
(* Text: a string is a sequence of one-character strings.                  *)
(***************************************************************************)
Digits == <<"0", "1", "2", "3", "4", "5", "6", "7", "8", "9">>

RECURSIVE Str(_)
Str(n) ==
    IF n < 10 THEN <<Digits[n + 1]>>
    ELSE Str(n \div 10) \o <<Digits[(n % 10) + 1]>>

Spaces(k) == [i \in 1..k |-> " "]

\* A number written in a field of the given width, flush right or flush left.
Field(n, width, just) ==
    LET s == Str(n)
    IN  IF just = "right" THEN Spaces(width - Len(s)) \o s
        ELSE s \o Spaces(width - Len(s))

RECURSIVE lstrip(_)
lstrip(s) ==
    IF s # <<>> /\ Head(s) = " " THEN lstrip(Tail(s)) ELSE s

RECURSIVE rstrip(_)
rstrip(s) ==
    IF s # <<>> /\ s[Len(s)] = " " THEN rstrip(SubSeq(s, 1, Len(s) - 1)) ELSE s

IsDigit(c) == \E d \in 1..10 : Digits[d] = c

DigitValue(c) == (CHOOSE d \in 1..10 : Digits[d] = c) - 1

RECURSIVE DecimalValue(_)
DecimalValue(s) ==
    IF s = <<>> THEN 0
    ELSE 10 * DecimalValue(SubSeq(s, 1, Len(s) - 1)) + DigitValue(s[Len(s)])

\* Python's int(text): surrounding blanks are dropped, then the text must be
\* a decimal numeral; anything else raises ValueError.
PyInt(text) ==
    LET s == rstrip(lstrip(text))
    IN  IF s # <<>> /\ \A i \in 1..Len(s) : IsDigit(s[i])
        THEN [ok |-> TRUE, val |-> DecimalValue(s)]
        ELSE [ok |-> FALSE, val |-> 0]

(***************************************************************************)
(* The on-disk archive.  A file is its length in bytes and the header      *)
(* fields the reader uses (what the header bytes hold, or would hold in a  *)
(* file too short to hold them); the bytes at offset p of file f are named *)
(* [file |-> f, at |-> p], so two reads return the same data exactly when  *)
(* they read the same bytes with the same schema.                          *)
(***************************************************************************)
\* Bytes beyond the last whole slot: none, or fewer than a header holds.
TailBytes == {0, 50}

AstLengths == {AstStride * n + t : n \in 0..MaxSlots, t \in TailBytes}
ComLengths == {ComStride * n + t : n \in 0..MaxSlots, t \in TailBytes}

Biases == {-1, 1}
ComBiases == -1..MaxRec

Markers == {p \in (0..MaxRec) \X (0..MaxRec) : p[1] <= p[2]}

AstFiles ==
    {[len |-> l, IBIAS0 |-> b0, IBIAS1 |-> b1,
      ENDPT1 |-> Field(m[1], MarkerWidth, j),
      ENDPT2 |-> Field(m[2], MarkerWidth, j)] :
        l \in AstLengths, b0 \in Biases, b1 \in Biases, m \in Markers,
        j \in {"left", "right"}}

ComFiles == {[len |-> l, IBIAS2 |-> b2] : l \in ComLengths, b2 \in ComBiases}

\* The record numbers read_record is called with.
Records == -1..(MaxRec + 2)

NoRet ==
    [op |-> "none", arg |-> 0, status |-> "none", exc |-> "", file |-> "",
     phis_rec |-> 0, dtype |-> "", data |-> <<>>, ast_header |-> <<>>,
     com_header |-> <<>>, columns |-> <<>>]

Raise(op, arg, exc) ==
    [NoRet EXCEPT !.op = op, !.arg = arg, !.status = "raise", !.exc = exc]

(***************************************************************************)
(* Opening a file: `with open(path, mode) as f`.                           *)
(***************************************************************************)
NoHandles == [f \in {"ast", "com", "idx"} |-> 0]

\* The mode the binary files are opened with, and a variant that writes.
binary_mode_write == "wb"

binary_mode == "rb"

text_mode == "r"

\* What open(path, mode) leaves of an existing file: a read mode leaves it
\* as it is, any other mode of the model empties it.
open_binary(file, mode) ==
    IF mode = "rb" THEN file ELSE [file EXCEPT !.len = 0]

open_text(lines, mode) ==
    IF mode = "r" THEN lines ELSE <<>>

\* open() gives one more handle on the file.
open(h, path) == [h EXCEPT ![path] = @ + 1]

\* A variant of the end of the block that closes only on a normal exit.
with_exit_on_return(h, path, status) ==
    IF status = "return" THEN [h EXCEPT ![path] = @ - 1] ELSE h

\* The end of the with block closes the handle, however the block was
\* left: status is "return" or "raise".
with_exit(h, path, status) == [h EXCEPT ![path] = @ - 1]

\* The handles after one whole with block that was left with status.
with_open(h, path, status) == with_exit(open(h, path), path, status)

(***************************************************************************)
(* numpy.fromfile on an open binary file at position pos.                  *)
(***************************************************************************)
\* count = 1: one item when that many bytes are left, else an empty array.
fromfile_one(name, len, pos, dtype) ==
    IF len - pos >= dtype.itemsize
    THEN <<[file |-> name, at |-> pos, dtype |-> dtype.name]>>
    ELSE <<>>

\* count = -1: every whole item from pos to the end of the file.
fromfile_all(name, len, pos, dtype) ==
    [i \in 1..((len - pos) \div dtype.itemsize) |->
        [file |-> name, at |-> pos + (i - 1) * dtype.itemsize,
         dtype |-> dtype.name]]

(***************************************************************************)
(* read_headers                                                            *)
(***************************************************************************)
read_headers ==
    [ast_header |->
        IF ast_file.len >= AstHeaderDtype.itemsize
        THEN <<[IBIAS1 |-> ast_file.IBIAS1, ENDPT1 |-> ast_file.ENDPT1,
                ENDPT2 |-> ast_file.ENDPT2, IBIAS0 |-> ast_file.IBIAS0]>>
        ELSE <<>>,
     com_header |->
        IF com_file.len >= ComHeaderDtype.itemsize
        THEN <<[IBIAS2 |-> com_file.IBIAS2]>>
        ELSE <<>>]

\* Both with blocks of read_headers are left normally.
read_headers_handles(h) ==
    with_open(with_open(h, "ast", "return"), "com", "return")

ReadHeaders ==
    /\ ret' = [NoRet EXCEPT !.op = "read_headers", !.status = "return",
                            !.ast_header = read_headers.ast_header,
                            !.com_header = read_headers.com_header]
    /\ handles' = read_headers_handles(handles)
    /\ ast_file' = open_binary(ast_file, binary_mode)
    /\ com_file' = open_binary(com_file, binary_mode)
    /\ UNCHANGED <<nameVars, fetchVars, schemaVars>>
    /\ UNCHANGED <<unitsVars, vegaVars, comaVars>>

(***************************************************************************)
(* read_record                                                             *)
(***************************************************************************)
\* open, seek(phis_rec, SEEK_SET), fromfile(count=1): a negative offset
\* makes seek raise OSError; a read past the end returns an empty array.
seek_and_read(record, name, len, phis_rec, dtype) ==
    IF phis_rec < 0 THEN
        [Raise("read_record", record, "OSError") EXCEPT
            !.file = name, !.phis_rec = phis_rec, !.dtype = dtype.name]
    ELSE
        [NoRet EXCEPT !.op = "read_record", !.arg = record,
                      !.status = "return", !.file = name,
                      !.phis_rec = phis_rec, !.dtype = dtype.name,
                      !.data = fromfile_one(name, len, phis_rec, dtype)]

\* A variant with the numbered range ending one record early.
ast_bias_strict(record, h) ==
    IF record < PyInt(h.ENDPT1).val THEN h.IBIAS0 ELSE h.IBIAS1

\* The bias of an asteroid record: IBIAS0 up to ENDPT1, IBIAS1 beyond it.
ast_bias(record, h) ==
    IF record <= PyInt(h.ENDPT1).val THEN h.IBIAS0 ELSE h.IBIAS1

\* Whether the record is read from the asteroid file.
in_ast_file(record, h) == record <= PyInt(h.ENDPT2).val

read_record(record) ==
    LET hs == read_headers
    IN  IF hs.ast_header = <<>> THEN Raise("read_record", record, "IndexError")
        ELSE
          LET h == hs.ast_header[1]
          IN  IF in_ast_file(record, h) THEN
                seek_and_read(record, "ast", ast_file.len,
                              AstStride * (record - ast_bias(record, h) - 1),
                              AstDtype)
              ELSE IF hs.com_header = <<>> THEN
                Raise("read_record", record, "IndexError")
              ELSE
                seek_and_read(record, "com", com_file.len,
                              ComStride * (record - hs.com_header[1].IBIAS2 - 1),
                              ComDtype)

\* The handles after read_record gave r: the two header reads, then the
\* with block on the file of the record unless the call raised before it.
read_record_handles(h, r) ==
    IF r.file = "" THEN read_headers_handles(h)
    ELSE with_open(read_headers_handles(h), r.file, r.status)

\* The files after read_record gave r: both are opened for the headers,
\* one of them again for the record.
read_record_files(r) ==
    [ast |-> IF r.file = "ast"
             THEN open_binary(open_binary(ast_file, binary_mode), binary_mode)
             ELSE open_binary(ast_file, binary_mode),
     com |-> IF r.file = "com"
             THEN open_binary(open_binary(com_file, binary_mode), binary_mode)
             ELSE open_binary(com_file, binary_mode)]

ReadRecord(record) ==
    /\ ret' = read_record(record)
    /\ handles' = read_record_handles(handles, ret')
    /\ ast_file' = read_record_files(ret').ast
    /\ com_file' = read_record_files(ret').com
    /\ UNCHANGED <<nameVars, fetchVars, schemaVars>>
    /\ UNCHANGED <<unitsVars, vegaVars, comaVars>>

(***************************************************************************)
(* asteroid_db, comet_db                                                   *)
(***************************************************************************)
\* open, seek(pos), fromfile(count=-1).  Seeking past the end succeeds; what
\* numpy then does with a negative byte count differs with the length, so
\* both an empty array and a ValueError are allowed there.
bulk_read(op, name, len, pos, dtype) ==
    IF len >= pos THEN
        {[NoRet EXCEPT !.op = op, !.status = "return", !.file = name,
                       !.phis_rec = pos, !.dtype = dtype.name,
                       !.data = fromfile_all(name, len, pos, dtype)]}
    ELSE
        {[NoRet EXCEPT !.op = op, !.status = "return", !.file = name,
                       !.phis_rec = pos, !.dtype = dtype.name],
         Raise(op, 0, "ValueError")}

\* A variant that reads from the start of the file, header slot included.
asteroid_db_from_start ==
    bulk_read("asteroid_db", "ast", ast_file.len, 0, AstDtype)

asteroid_db ==
    bulk_read("asteroid_db", "ast", ast_file.len, AstSeek, AstDtype)

comet_db ==
    bulk_read("comet_db", "com", com_file.len, ComSeek, ComDtype)

AsteroidDb ==
    /\ \E r \in asteroid_db :
          /\ ret' = r
          /\ handles' = with_open(handles, "ast", r.status)
    /\ ast_file' = open_binary(ast_file, binary_mode)
    /\ UNCHANGED com_file
    /\ UNCHANGED <<nameVars, fetchVars, schemaVars>>
    /\ UNCHANGED <<unitsVars, vegaVars, comaVars>>

CometDb ==
    /\ \E r \in comet_db :
          /\ ret' = r
          /\ handles' = with_open(handles, "com", r.status)
    /\ com_file' = open_binary(com_file, binary_mode)
    /\ UNCHANGED ast_file
    /\ UNCHANGED <<nameVars, fetchVars, schemaVars>>
    /\ UNCHANGED <<unitsVars, vegaVars, comaVars>>

(***************************************************************************)
(* entire_db                                                               *)
(***************************************************************************)
\* names[:17] + names[-4:-3] + names[-2:]
entire_columns(dtype) ==
    SubSeq(dtype, 1, 17)
        \o SubSeq(dtype, Len(dtype) - 3, Len(dtype) - 3)
        \o SubSeq(dtype, Len(dtype) - 1, Len(dtype))

\* astropy's vstack(tables, join_type), called here with one table as
\* tables and the other table as join_type: either the join type is rejected
\* (TypeError) or, a single table being given, that table is returned as is.
vstack(tables, join_type) ==
    IF join_type.type = "str" THEN
        {[status |-> "return", table |-> tables]}
    ELSE
        {[status |-> "raise", table |-> tables],
         [status |-> "return", table |-> tables]}

\* What entire_db gives when asteroid_db gave a and comet_db gave c.
entire_db_of(a, c) ==
    IF a.status = "raise" THEN {Raise("entire_db", 0, a.exc)}
    ELSE IF c.status = "raise" THEN {Raise("entire_db", 0, c.exc)}
    ELSE
      LET ast_database ==
            [type |-> "Table", columns |-> entire_columns(AST_DTYPE),
             rows |-> a.data]
          com_database ==
            [type |-> "Table", columns |-> entire_columns(COM_DTYPE),
             rows |-> c.data]
      IN  {IF df.status = "raise" THEN Raise("entire_db", 0, "TypeError")
           ELSE [NoRet EXCEPT !.op = "entire_db", !.status = "return",
                              !.columns = df.table.columns,
                              !.data = df.table.rows] :
             df \in vstack(ast_database, com_database)}

entire_db ==
    UNION {UNION {entire_db_of(a, c) : c \in comet_db} : a \in asteroid_db}

\* The handles after entire_db: the with block of asteroid_db, then that of
\* comet_db unless asteroid_db raised.
entire_db_handles(h, a, c) ==
    IF a.status = "raise" THEN with_open(h, "ast", a.status)
    ELSE with_open(with_open(h, "ast", a.status), "com", c.status)

EntireDb ==
    /\ \E a \in asteroid_db, c \in comet_db :
          /\ \E r \in entire_db_of(a, c) : ret' = r
          /\ handles' = entire_db_handles(handles, a, c)
          /\ com_file' = IF a.status = "raise" THEN com_file
                         ELSE open_binary(com_file, binary_mode)
    /\ ast_file' = open_binary(ast_file, binary_mode)
    /\ UNCHANGED <<nameVars, fetchVars, schemaVars>>
    /\ UNCHANGED <<unitsVars, vegaVars, comaVars>>

(***************************************************************************)
(* orbit_from_record                                                       *)
(***************************************************************************)
\* The fields orbit_from_record takes from the record, in its order.
orbit_fields == <<"A", "EC", "IN", "OM", "W", "MA", "EPOCH">>

HasField(dtype, name) == \E k \in 1..Len(dtype) : dtype[k][1] = name

\* read_record, then .item() on each field (ValueError on an empty array),
\* then Table(rows=...): what Table makes of a column that holds a string and
\* a Time is left open, a table or an error.
orbit_from_record(record) ==
    LET body_data == read_record(record)
        dtype == IF body_data.dtype = "AST_DTYPE" THEN AST_DTYPE ELSE COM_DTYPE
    IN  IF body_data.status = "raise" THEN
            {[body_data EXCEPT !.op = "orbit_from_record"]}
        ELSE IF body_data.data = <<>>
                \/ \E i \in 1..Len(orbit_fields) :
                      ~HasField(dtype, orbit_fields[i]) THEN
            {[body_data EXCEPT !.op = "orbit_from_record",
                               !.status = "raise", !.exc = "ValueError"]}
        ELSE
            {[body_data EXCEPT !.op = "orbit_from_record",
                               !.columns = <<"record">> \o orbit_fields],
             [body_data EXCEPT !.op = "orbit_from_record",
                               !.status = "raise", !.exc = "TypeError"]}

\* The files are touched by read_record only: the status the with block on
\* the record's file was left with is read_record's.
OrbitFromRecord(record) ==
    /\ \E r \in orbit_from_record(record) : ret' = r
    /\ handles' = read_record_handles(handles, read_record(record))
    /\ ast_file' = read_record_files(read_record(record)).ast
    /\ com_file' = read_record_files(read_record(record)).com
    /\ UNCHANGED <<nameVars, fetchVars, schemaVars>>
    /\ UNCHANGED <<unitsVars, vegaVars, comaVars>>

(***************************************************************************)
(* The name index, dastcom.idx, and the searches over it.                  *)
(***************************************************************************)
\* The largest number of lines of an index file.
MaxLines == 2
\* The width of the record number field of an index line (line[:6]).
RecordWidth == 6

UpperCase ==
    <<"A", "B", "C", "D", "E", "F", "G", "H", "I", "J", "K", "L", "M">>
        \o <<"N", "O", "P", "Q", "R", "S", "T", "U", "V", "W", "X", "Y", "Z">>

LowerCase ==
    <<"a", "b", "c", "d", "e", "f", "g", "h", "i", "j", "k", "l", "m">>
        \o <<"n", "o", "p", "q", "r", "s", "t", "u", "v", "w", "x", "y", "z">>

\* str.casefold, on the characters of the model.
casefold_char(c) ==
    IF \E i \in 1..26 : UpperCase[i] = c
    THEN LowerCase[CHOOSE i \in 1..26 : UpperCase[i] = c]
    ELSE c

casefold(s) == [i \in 1..Len(s) |-> casefold_char(s[i])]

\* A character the regular expression engine counts as part of a word.
IsWordChar(c) ==
    \/ \E i \in 1..26 : UpperCase[i] = c \/ LowerCase[i] = c
    \/ IsDigit(c)
    \/ c = "_"

\* \b at position p of s (between s[p] and s[p+1]): exactly one side is a
\* word character, the ends of the string counting as non-word.
WordBoundary(s, p) ==
    (p >= 1 /\ IsWordChar(s[p])) # (p < Len(s) /\ IsWordChar(s[p + 1]))

(***************************************************************************)
(* The part of Python's re the searches reach: a pattern of literal        *)
(* characters, "." (any character but a newline) and groups "(" ... ")".   *)
(***************************************************************************)
\* The nesting depth after each character; -1 once a ")" closes nothing.
RECURSIVE GroupDepth(_)
GroupDepth(pattern) ==
    IF pattern = <<>> THEN 0
    ELSE LET before == GroupDepth(SubSeq(pattern, 1, Len(pattern) - 1))
             c == pattern[Len(pattern)]
         IN  IF before < 0 THEN before
             ELSE IF c = "(" THEN before + 1
             ELSE IF c = ")" THEN before - 1
             ELSE before

\* re.compile accepts the pattern: every group is opened and closed.
re_compiles(pattern) == GroupDepth(pattern) = 0

\* The characters a pattern matches one for one, its group marks dropped.
re_atoms(pattern) == SelectSeq(pattern, LAMBDA c : c \notin {"(", ")"})

atom_matches(a, c) == IF a = "." THEN c # "\n" ELSE a = c

\* re.search(r"\b" + pattern + r"\b", string) finds a match.
re_search_word(pattern, string) ==
    LET atoms == re_atoms(pattern)
        k == Len(atoms)
    IN  \E i \in 0..(Len(string) - k) :
            /\ WordBoundary(string, i)
            /\ \A j \in 1..k : atom_matches(atoms[j], string[i + j])
            /\ WordBoundary(string, i + k)

(***************************************************************************)
(* string_record_from_name, record_from_name                               *)
(***************************************************************************)
NoFound ==
    [op |-> "none", name |-> <<>>, status |-> "none", exc |-> "",
     lines |-> <<>>, records |-> <<>>]

\* A variant that keeps the list of an earlier call (a list shared by calls).
new_list_kept == found.lines

\* lines = []: each call starts from an empty list.
new_list == <<>>

\* The scan of the whole index: the first line searched with a pattern that
\* does not compile raises re.error; an empty index searches nothing.
string_record_from_name(name) ==
    IF idx # <<>> /\ ~re_compiles(casefold(name)) THEN
        [NoFound EXCEPT !.op = "string_record_from_name", !.name = name,
                        !.status = "raise", !.exc = "re.error"]
    ELSE
        [NoFound EXCEPT !.op = "string_record_from_name", !.name = name,
                        !.status = "return",
                        !.lines = new_list \o
                            SelectSeq(idx, LAMBDA line :
                                re_search_word(casefold(name), casefold(line)))]

\* int(line[:6].lstrip())
record_of_line(line) ==
    PyInt(lstrip(SubSeq(line, 1, IF Len(line) < RecordWidth THEN Len(line)
                                  ELSE RecordWidth)))

record_from_name(name) ==
    LET got == string_record_from_name(name)
    IN  IF got.status = "raise" THEN [got EXCEPT !.op = "record_from_name"]
        ELSE IF \E i \in 1..Len(got.lines) : ~record_of_line(got.lines[i]).ok
        THEN [NoFound EXCEPT !.op = "record_from_name", !.name = name,
                             !.status = "raise", !.exc = "ValueError"]
        ELSE [got EXCEPT !.op = "record_from_name",
                         !.records = [i \in 1..Len(got.lines) |->
                                         record_of_line(got.lines[i]).val]]

(***************************************************************************)
(* The index files and the queries of the model.                           *)
(***************************************************************************)
\* One line of the index: the record number flush right in its field, then
\* the free text.
IndexLine(entry) == Field(entry[1], RecordWidth, "right") \o entry[2]

Entries ==
    {<<433, <<" ", "E", "r", "o", "s", "\n">>>>,
     <<7, <<" ", "A", "e", "r", "o", "s", "\n">>>>,
     <<123456, <<" ", "E", "r", "o", "s", "i", "o", "n", "\n">>>>,
     <<21, <<" ", "E", "R", "O", "S", " ", "4", "3", "3", "\n">>>>,
     <<1, <<" ", "C", "e", "r", "e", "s", "\n">>>>}

RECURSIVE EntryLists(_)
EntryLists(n) ==
    IF n = 0 THEN {<<>>}
    ELSE EntryLists(n - 1) \cup
         {Append(l, e) : l \in {x \in EntryLists(n - 1) : Len(x) = n - 1},
                         e \in Entries}

Queries ==
    {<<"e", "R", "o", "s">>, <<"4", "3", "3">>, <<"E", ".", "o", "s">>, <<"(">>}

StringRecordFromName(name) ==
    /\ found' = string_record_from_name(name)
    /\ handles' = with_open(handles, "idx", found'.status)
    /\ idx' = open_text(idx, text_mode)
    /\ UNCHANGED history
    /\ UNCHANGED <<storeVars, fetchVars, schemaVars>>
    /\ UNCHANGED <<unitsVars, vegaVars, comaVars>>

\* history.first keeps what the first call for each query gave, and
\* history.repeated tells whether the last call was a later one.
RecordFromName(name) ==
    /\ found' = record_from_name(name)
    /\ history' =
          IF history.first[name].op = "none"
          THEN [first |-> [history.first EXCEPT ![name] = found'],
                repeated |-> FALSE]
          ELSE [history EXCEPT !.repeated = TRUE]
    /\ handles' = with_open(handles, "idx",
                            string_record_from_name(name).status)
    /\ idx' = open_text(idx, text_mode)
    /\ UNCHANGED <<storeVars, fetchVars, schemaVars>>
    /\ UNCHANGED <<unitsVars, vegaVars, comaVars>>

(***************************************************************************)
(* download_dastcom5 over the local file system under ~/.sbpy.             *)
(*                                                                         *)
(* fs.sbpy_dir tells whether ~/.sbpy exists; fs.dastcom5_dir is the state  *)
(* of ~/.sbpy/dastcom5 (absent, a complete archive of some version, or a   *)
(* partial tree); fs.zip is the state of ~/.sbpy/dastcom5.zip (absent, a   *)
(* zip file of some version, or a file that is no zip file).               *)
(***************************************************************************)
\* The archive versions the server may offer.
MaxVersion == 2

Versions == 1..MaxVersion

Absent == [state |-> "absent", version |-> 0]
Partial == [state |-> "partial", version |-> 0]
Complete(v) == [state |-> "complete", version |-> v]
NotAZip == [state |-> "corrupt", version |-> 0]
Zip(v) == [state |-> "zip", version |-> v]

FileSystems ==
    {[sbpy_dir |-> FALSE, dastcom5_dir |-> Absent, zip |-> Absent]} \cup
    {[sbpy_dir |-> TRUE, dastcom5_dir |-> d, zip |-> z] :
        d \in {Absent, Partial} \cup {Complete(v) : v \in Versions},
        z \in {Absent, NotAZip} \cup {Zip(v) : v \in Versions}}

NoFetch ==
    [update |-> FALSE, before |-> <<>>, status |-> "none", exc |-> "",
     effects |-> <<>>]

\* os.path.isdir(dastcom5_dir)
isdir(f) == f.dastcom5_dir.state # "absent"

\* zipfile.is_zipfile(dastcom5_zip_path)
is_zipfile(f) == f.zip.state = "zip"

\* A variant that refuses when an update is asked for.
already_created_inverted(f, update) == isdir(f) /\ update

\* The directory is there and no update was asked for: FileExistsError.
already_created(f, update) == isdir(f) /\ ~update

\* A run so far: the file system it has made, what it did, how it ended
\* ("running" while it goes on).
Run(f, effects, status, exc) ==
    [fs |-> f, effects |-> effects, status |-> status, exc |-> exc]

\* shutil.rmtree(dastcom5_dir) when updating an existing directory: the
\* tree is removed, or the removal fails part way.
rmtree_step(r, update) ==
    IF isdir(r.fs) /\ update THEN
        {Run([r.fs EXCEPT !.dastcom5_dir = Absent],
             Append(r.effects, "rmtree"), "running", ""),
         Run([r.fs EXCEPT !.dastcom5_dir = Partial],
             Append(r.effects, "rmtree"), "raise", "OSError")}
    ELSE {r}

\* Unless the zip file is already there: os.makedirs(SBPY_LOCAL_PATH) if
\* needed, then urlretrieve, which writes the zip file of the version the
\* server offers, or fails before writing, or fails leaving a partial file.
download_step(r) ==
    IF r.status # "running" \/ is_zipfile(r.fs) THEN {r}
    ELSE
      LET made == [r.fs EXCEPT !.sbpy_dir = TRUE]
          done == IF r.fs.sbpy_dir THEN r.effects
                  ELSE Append(r.effects, "makedirs")
      IN  {Run([made EXCEPT !.zip = Zip(v)],
               Append(done, "urlretrieve"), "running", "") : v \in Versions}
          \cup
          {Run(made, done, "raise", "URLError"),
           Run([made EXCEPT !.zip = NotAZip],
               Append(done, "urlretrieve"), "raise", "URLError")}

\* ZipFile(zip).extractall(SBPY_LOCAL_PATH): the archive of the zip file's
\* version is written, or the extraction fails part way.
extract_step(r) ==
    IF r.status # "running" THEN {r}
    ELSE
      {Run([r.fs EXCEPT !.dastcom5_dir = Complete(r.fs.zip.version)],
           Append(r.effects, "extractall"), "running", ""),
       Run([r.fs EXCEPT !.dastcom5_dir = Partial],
           Append(r.effects, "extractall"), "raise", "OSError")}

\* os.remove(dastcom5_zip_path), and the normal return.
remove_step(r) ==
    IF r.status # "running" THEN {r}
    ELSE {Run([r.fs EXCEPT !.zip = Absent],
              Append(r.effects, "remove"), "return", "")}

download_dastcom5(update) ==
    IF already_created(fs, update) THEN
        {Run(fs, <<>>, "raise", "FileExistsError")}
    ELSE
        LET removed == rmtree_step(Run(fs, <<>>, "running", ""), update)
            loaded == UNION {download_step(r) : r \in removed}
            extracted == UNION {extract_step(r) : r \in loaded}
        IN  UNION {remove_step(r) : r \in extracted}

DownloadDastcom5(update) ==
    /\ \E r \in download_dastcom5(update) :
          /\ fs' = r.fs
          /\ fetched' = [update |-> update, before |-> fs, status |-> r.status,
                         exc |-> r.exc, effects |-> r.effects]
    /\ UNCHANGED <<storeVars, handles, nameVars, schemaVars>>
    /\ UNCHANGED <<unitsVars, vegaVars, comaVars>>

(***************************************************************************)
(* Decoding one record-sized byte block with a schema, and writing the     *)
(* decoded fields back in the same layout.                                 *)
(***************************************************************************)
Pow256 == <<1, 256, 65536, 16777216>>

\* A little-endian two's complement integer of Len(bytes) <= 4 bytes.
RECURSIVE le_signed(_)
le_signed(bytes) ==
    IF Len(bytes) = 1
    THEN IF bytes[1] >= 128 THEN bytes[1] - 256 ELSE bytes[1]
    ELSE bytes[1] + 256 * le_signed(Tail(bytes))

\* The value of a field: an integer for kind "i"; the bytes themselves (the
\* IEEE bit pattern, the fixed-width byte string) for kinds "f" and "S".
field_value(kind, bytes) == IF kind = "i" THEN le_signed(bytes) ELSE bytes

field_bytes(kind, width, value) ==
    IF kind = "i"
    THEN [j \in 1..width |-> (value \div Pow256[j]) % 256]
    ELSE value

\* numpy.frombuffer(bytes, dtype, count=1): one item of typed fields when
\* the block holds an item, else nothing.
decode(dtype, bytes) ==
    IF Len(bytes) >= dtype.itemsize
    THEN <<[k \in 1..Len(dtype.fields) |->
              field_value(dtype.fields[k][2],
                          SubSeq(bytes, dtype.offsets[k] + 1,
                                 dtype.offsets[k] + dtype.fields[k][3]))]>>
    ELSE <<>>

\* The bytes of fields lo..hi of an item, in order (joined by halves).
RECURSIVE pack(_, _, _, _)
pack(dtype, item, lo, hi) ==
    IF lo > hi THEN <<>>
    ELSE IF lo = hi
    THEN field_bytes(dtype.fields[lo][2], dtype.fields[lo][3], item[lo])
    ELSE LET mid == (lo + hi) \div 2
         IN  pack(dtype, item, lo, mid) \o pack(dtype, item, mid + 1, hi)

\* array.tobytes(): every item written field after field.
encode(dtype, items) ==
    IF items = <<>> THEN <<>>
    ELSE pack(dtype, items[1], 1, Len(dtype.fields))

\* The blocks of the model: byte i holds (i + fill) mod 256, but for one
\* marked byte, which holds a chosen value.
Fills == {0}
Marks == {128, 255}

Schema(name) == IF name = "AST_DTYPE" THEN AstDtype ELSE ComDtype
RecordSize(name) == IF name = "AST_DTYPE" THEN AstStride ELSE ComStride

BlocksOf(n) ==
    {[dtype |-> n, marked |-> p,
      bytes |-> [i \in 1..RecordSize(n) |->
                    IF i = p THEN m ELSE (i + f) % 256]] :
        p \in 1..RecordSize(n), m \in Marks, f \in Fills}

Blocks == BlocksOf("AST_DTYPE") \cup BlocksOf("COM_DTYPE")

NoDecode == [done |-> FALSE, items |-> <<>>]
NoEncode == [done |-> FALSE, bytes |-> <<>>]

Decode ==
    /\ ~decoded.done
    /\ decoded' = [done |-> TRUE,
                   items |-> decode(Schema(block.dtype), block.bytes)]
    /\ UNCHANGED <<block, encoded>>
    /\ UNCHANGED <<storeVars, handles, nameVars, fetchVars>>
    /\ UNCHANGED <<unitsVars, vegaVars, comaVars>>

Encode ==
    /\ decoded.done /\ ~encoded.done
    /\ encoded' = [done |-> TRUE,
                   bytes |-> encode(Schema(block.dtype), decoded.items)]
    /\ UNCHANGED <<block, decoded>>
    /\ UNCHANGED <<storeVars, handles, nameVars, fetchVars>>
    /\ UNCHANGED <<unitsVars, vegaVars, comaVars>>

(***************************************************************************)
(* Numbers of the photometric code.  A value is a rational n/d in lowest   *)
(* terms (d > 0) times powers of three constants that stay symbols: K, the *)
(* kilometres in one astronomical unit (u.au.to('km')); S, the flux of the *)
(* default solar magnitude, 10^(0.4 * 26.77471503); P, numpy's pi.  inf    *)
(* and nan are what numpy gives for x/0 and 0/0, inf*0.  Rounding is not   *)
(* modelled.                                                               *)
(***************************************************************************)
RECURSIVE GCD(_, _)
GCD(a, b) == IF b = 0 THEN a ELSE GCD(b, a % b)

Abs(n) == IF n < 0 THEN -n ELSE n

Zero == [k |-> "num", n |-> 0, d |-> 1, K |-> 0, S |-> 0, P |-> 0]
Inf == [k |-> "inf", n |-> 0, d |-> 1, K |-> 0, S |-> 0, P |-> 0]
NaN == [k |-> "nan", n |-> 0, d |-> 1, K |-> 0, S |-> 0, P |-> 0]

Norm(n, d, eK, eS, eP) ==
    IF n = 0 THEN Zero
    ELSE LET g == GCD(Abs(n), d)
         IN  [k |-> "num", n |-> n \div g, d |-> d \div g,
              K |-> eK, S |-> eS, P |-> eP]

Rat(n, d) == Norm(n, d, 0, 0, 0)

\* K^e, S^e, P^e
SymK(e) == [k |-> "num", n |-> 1, d |-> 1, K |-> e, S |-> 0, P |-> 0]
SymS(e) == [k |-> "num", n |-> 1, d |-> 1, K |-> 0, S |-> e, P |-> 0]
SymP(e) == [k |-> "num", n |-> 1, d |-> 1, K |-> 0, S |-> 0, P |-> e]

\* a * b
Mul(a, b) ==
    IF a.k = "nan" \/ b.k = "nan" THEN NaN
    ELSE IF a.k = "inf" \/ b.k = "inf"
    THEN (IF a = Zero \/ b = Zero THEN NaN ELSE Inf)
    ELSE Norm(a.n * b.n, a.d * b.d, a.K + b.K, a.S + b.S, a.P + b.P)

\* a / b on numpy values: no exception, x/0 is inf and 0/0 is nan.
Div(a, b) ==
    IF a.k = "nan" \/ b.k = "nan" THEN NaN
    ELSE IF b.k = "inf" THEN (IF a.k = "inf" THEN NaN ELSE Zero)
    ELSE IF a.k = "inf" THEN Inf
    ELSE IF b = Zero THEN (IF a = Zero THEN NaN ELSE Inf)
    ELSE IF b.n < 0
    THEN Norm(-(a.n * b.d), a.d * (-b.n), a.K - b.K, a.S - b.S, a.P - b.P)
    ELSE Norm(a.n * b.d, a.d * b.n, a.K - b.K, a.S - b.S, a.P - b.P)

\* a + b, for values with the same symbols.
Add(a, b) ==
    IF a.k # "num" \/ b.k # "num" THEN NaN
    ELSE IF a = Zero THEN b
    ELSE IF b = Zero THEN a
    ELSE Norm(a.n * b.d + b.n * a.d, a.d * b.d, a.K, a.S, a.P)

RECURSIVE Pow10(_)
Pow10(e) ==
    IF e = 0 THEN Rat(1, 1)
    ELSE IF e > 0 THEN Mul(Rat(10, 1), Pow10(e - 1))
    ELSE Div(Pow10(e + 1), Rat(10, 1))

RECURSIVE IsPow10(_)
IsPow10(n) == n = 1 \/ (n > 1 /\ n % 10 = 0 /\ IsPow10(n \div 10))

RECURSIVE Log10(_)
Log10(n) == IF n = 1 THEN 0 ELSE 1 + Log10(n \div 10)

(***************************************************************************)
(* Magnitudes (astropy's MagUnit).  A magnitude is j steps of 2.5 mag,     *)
(* plus the default solar magnitude -26.77471503 when dflt = 1; its flux   *)
(* in the physical unit is 10^(-0.4 m) = 10^(-j) * S^dflt.                 *)
(***************************************************************************)
Mag(j, dflt) == [j |-> j, dflt |-> dflt, ok |-> TRUE]

NoMag == [j |-> 0, dflt |-> 0, ok |-> FALSE]

\* Quantity.to(physical_unit).value of a magnitude
mag_to_physical(m) == Mul(Pow10(-m.j), SymS(m.dflt))

\* Quantity.to(a magnitude unit).value of a flux: -2.5 log10(x); a flux that
\* is no magnitude of the model (inf, nan, not a power of ten) gives NoMag.
physical_to_mag(x) ==
    IF x.k = "num" /\ x.K = 0 /\ x.P = 0 /\ x.S \in {0, 1} /\ x.n > 0
       /\ ((x.d = 1 /\ IsPow10(x.n)) \/ (x.n = 1 /\ IsPow10(x.d)))
    THEN Mag(Log10(x.d) - Log10(x.n), x.S)
    ELSE NoMag

\* A Python value that is not a number: its type and what it stands for.
PyVal(type, name) == [type |-> type, name |-> name]

None == PyVal("NoneType", "None")

(***************************************************************************)
(* sbpy.spectroscopy.vega: Vega and the default_vega science state.        *)
(***************************************************************************)
\* default_vega._value as the class is defined.
Bohlin2014 == PyVal("str", "Bohlin2014")

\* The parameter sets of sbpy.spectroscopy.vega.sources.
sources == {"Bohlin2014"}

\* A Vega instance, named by the spectrum it holds.
VegaOf(name) == PyVal("Vega", name)

NoVegaRet ==
    [op |-> "none", arg |-> None, status |-> "none", exc |-> "",
     value |-> None, before |-> None]

VegaReturn(op, arg, value) ==
    [NoVegaRet EXCEPT !.op = op, !.arg = arg, !.status = "return",
                      !.value = value]

VegaRaise(op, arg, exc) ==
    [NoVegaRet EXCEPT !.op = op, !.arg = arg, !.status = "raise", !.exc = exc]

\* Vega.from_builtin(name): getattr(sources, name), and in the handler of
\* AttributeError the message is formatted with sources.keys() before
\* ValueError is raised.  Whether the sources module has a keys attribute
\* is not known: with it the ValueError is raised, without it the handler
\* itself fails with AttributeError.
from_builtin(name) ==
    IF name.name \in sources
    THEN {VegaReturn("from_builtin", name, VegaOf(name.name))}
    ELSE {VegaRaise("from_builtin", name, "ValueError"),
          VegaRaise("from_builtin", name, "AttributeError")}

\* default_vega.validate(value)
validate(value) ==
    IF value.type = "str" THEN from_builtin(value)
    ELSE IF value.type = "Vega" THEN {VegaReturn("validate", value, value)}
    ELSE {VegaRaise("validate", value, "TypeError")}

\* The science state as the class is defined: no with block entered.
InitialVega == [_value |-> Bohlin2014, saved |-> <<>>]

\* How many with blocks are entered one inside the other.
MaxContexts == 2

\* ScienceState.set(value): _value = validate(value); a validate that raises
\* leaves _value as it was.  before is the _value the call found.
Set(value) ==
    /\ \E r \in validate(value) :
          /\ vega_ret' = [r EXCEPT !.op = "set", !.arg = value,
                                   !.before = default_vega._value]
          /\ default_vega' = IF r.status = "return"
                             THEN [default_vega EXCEPT !._value = r.value]
                             ELSE default_vega
    /\ UNCHANGED <<archiveVars, unitsVars, comaVars>>

\* with default_vega.set(value): the context keeps the value in effect
\* before the assignment.
Enter(value) ==
    /\ Len(default_vega.saved) < MaxContexts
    /\ \E r \in validate(value) :
          /\ vega_ret' = [r EXCEPT !.op = "enter", !.arg = value,
                                   !.before = default_vega._value]
          /\ default_vega' =
                IF r.status = "return"
                THEN [_value |-> r.value,
                      saved |-> Append(default_vega.saved, default_vega._value)]
                ELSE default_vega
    /\ UNCHANGED <<archiveVars, unitsVars, comaVars>>

\* The end of the with block puts the kept value back.
Exit ==
    /\ default_vega.saved # <<>>
    /\ LET n == Len(default_vega.saved)
       IN  /\ default_vega' = [_value |-> default_vega.saved[n],
                               saved |-> SubSeq(default_vega.saved, 1, n - 1)]
           /\ vega_ret' = VegaReturn("exit", None, default_vega.saved[n])
    /\ UNCHANGED <<archiveVars, unitsVars, comaVars>>

\* ScienceState.get(), Vega.from_default(): validate(_value)
from_default == validate(default_vega._value)

FromDefault ==
    /\ \E r \in from_default :
          vega_ret' = [r EXCEPT !.op = "from_default",
                                !.arg = default_vega._value]
    /\ UNCHANGED default_vega
    /\ UNCHANGED <<archiveVars, unitsVars, comaVars>>

\* The values default_vega is set to.
VegaValues ==
    {PyVal("str", "Bohlin2014"), PyVal("str", "Kurucz1993"),
     VegaOf("custom"), VegaOf("Bohlin2014"), PyVal("int", "7"), None}

(***************************************************************************)
(* sbpy.units: spectral_density_vega, magnitude_reflectance and            *)
(* magnitude_xsection.                                                     *)
(***************************************************************************)
Quantity(value, unit) == [type |-> "Quantity", value |-> value, unit |-> unit]

\* A magnitude argument: its type, its unit and its value.
MagArg(type, unit, mag) == [type |-> type, unit |-> unit, mag |-> mag]

MSunNone == MagArg("NoneType", "", NoMag)

\* hasattr(unit, 'physical_unit'): the magnitude systems built on a flux.
has_physical_unit(unit) == unit \in {"VEGAmag", "JMmag"}

\* VEGAmag = u.MagUnit(VEGA), JMmag = u.MagUnit(JM)
physical_unit(unit) == IF unit = "VEGAmag" THEN "VEGA" ELSE "JM"

\* The spectra of the model: Vega's spectral flux density at wfb in
\* W/(m2 Hz) and in W/(m2 um), the Sun's in W/(m2 um).  A Vega instance
\* other than the built-in one holds twice its flux; in the V band the Sun
\* is as bright as the default solar magnitude says.
vega_scale(vega) == IF vega.name = "Bohlin2014" THEN Rat(1, 1) ELSE Rat(2, 1)

vega_fnu(vega, wfb) ==
    Mul(vega_scale(vega), IF wfb.type = "Quantity" THEN Rat(4, 1) ELSE Rat(3, 1))

vega_flam(vega, wfb) ==
    Mul(vega_scale(vega), IF wfb.type = "Quantity" THEN Rat(2, 1) ELSE Rat(5, 1))

sun_flam(wfb) ==
    IF wfb.type = "Quantity" THEN Rat(200, 1) ELSE Mul(Rat(5, 1), SymS(1))

\* One equivalency: the two units, and what its two lambdas close over: the
\* number c (fnu0.value, flam0.value or f_sun) and the quantity q (xsec, or
\* ref in 1/sr).
Equivalency(from, to, kind, c, q) ==
    [from |-> from, to |-> to, kind |-> kind, c |-> c, q |-> q]

NoQuantity == Quantity(Zero, "")

NoEqv ==
    [fn |-> "none", arg |-> NoQuantity, wfb |-> None, M_sun |-> MSunNone,
     status |-> "none", exc |-> "", eqv |-> <<>>]

EqvReturn(list) == [NoEqv EXCEPT !.status = "return", !.eqv = list]

EqvRaise(exc) == [NoEqv EXCEPT !.status = "raise", !.exc = exc]

\* xsec.to('au2').value
to_au2(q) == IF q.unit = "au2" THEN q.value ELSE Mul(q.value, SymK(-2))

\* The first lambda of an equivalency, applied to x.
Forward(e, x) ==
    IF e.kind = "reflectance" THEN Div(x, Mul(e.c, to_au2(e.q)))
    ELSE IF e.kind = "xsection"
    THEN Mul(Div(x, Mul(e.c, e.q.value)), SymK(2))
    ELSE Div(x, e.c)

\* A variant whose cross-section is converted with the same factor both ways.
Backward_same_factor(e, y) ==
    IF e.kind = "reflectance" THEN Mul(Mul(y, e.c), e.q.value)
    ELSE IF e.kind = "xsection"
    THEN Mul(Mul(Mul(e.c, e.q.value), y), SymK(2))
    ELSE Mul(y, e.c)

\* The second lambda of an equivalency, applied to y.
Backward(e, y) ==
    IF e.kind = "reflectance" THEN Mul(Mul(y, e.c), to_au2(e.q))
    ELSE IF e.kind = "xsection"
    THEN Mul(Mul(Mul(e.c, e.q.value), y), SymK(-2))
    ELSE Mul(y, e.c)

\* spectral_density_vega(wfb)
spectral_density_vega(wfb) ==
    IF ~synphot THEN {EqvReturn(<<>>)}
    ELSE
      {IF vega.status = "raise" THEN EqvRaise(vega.exc)
       ELSE IF wfb.type \in {"Quantity", "str"} THEN
         EqvReturn(<<Equivalency("W/(m2 Hz)", "VEGA", "density",
                                 vega_fnu(vega.value, wfb), NoQuantity),
                     Equivalency("W/(m2 um)", "VEGA", "density",
                                 vega_flam(vega.value, wfb), NoQuantity)>>)
       ELSE EqvRaise("UnboundLocalError") : vega \in from_default}

\* Quantity.to(unit, equivalencies): the first equivalency between the two
\* units converts the value.
to_unit(value, from, to, list) ==
    LET i == CHOOSE i \in 1..Len(list) : list[i].from = from /\ list[i].to = to
    IN  Forward(list[i], value)

Solar(status, exc, f_sun, M_sun) ==
    [status |-> status, exc |-> exc, f_sun |-> f_sun, M_sun |-> M_sun]

\* A variant that keeps a solar magnitude that was passed in.
solar_flux_keeps_M_sun(wfb, M_sun) ==
    IF wfb # None /\ M_sun = MSunNone THEN
        IF ~synphot THEN {Solar("empty", "", Zero, M_sun)}
        ELSE IF wfb.type \notin {"Quantity", "str"}
        THEN {Solar("raise", "ValueError", Zero, M_sun)}
        ELSE
          {IF sdv.status = "raise" THEN Solar("raise", sdv.exc, Zero, M_sun)
           ELSE
             LET f_sun == to_unit(sun_flam(wfb), "W/(m2 um)", "VEGA", sdv.eqv)
             IN  Solar("ok", "", f_sun,
                       MagArg("Quantity", "VEGAmag", physical_to_mag(f_sun)))
           : sdv \in spectral_density_vega(wfb)}
    ELSE
        LET M == IF M_sun = MSunNone
                 THEN MagArg("Quantity", "VEGAmag", Mag(0, 1))
                 ELSE M_sun
        IN  IF M.type # "Quantity"
            THEN {Solar("raise", "AttributeError", Zero, M)}
            ELSE IF ~has_physical_unit(M.unit)
            THEN {Solar("raise", "UnitTypeError", Zero, M)}
            ELSE {Solar("ok", "", mag_to_physical(M.mag), M)}

\* The part the two magnitude functions share: f_sun and M_sun from wfb when
\* wfb is given, else from M_sun or the default solar magnitude.
solar_flux(wfb, M_sun) ==
    IF wfb # None THEN
        IF ~synphot THEN {Solar("empty", "", Zero, M_sun)}
        ELSE IF wfb.type \notin {"Quantity", "str"}
        THEN {Solar("raise", "ValueError", Zero, M_sun)}
        ELSE
          {IF sdv.status = "raise" THEN Solar("raise", sdv.exc, Zero, M_sun)
           ELSE
             LET f_sun == to_unit(sun_flam(wfb), "W/(m2 um)", "VEGA", sdv.eqv)
             IN  Solar("ok", "", f_sun,
                       MagArg("Quantity", "VEGAmag", physical_to_mag(f_sun)))
           : sdv \in spectral_density_vega(wfb)}
    ELSE
        LET M == IF M_sun = MSunNone
                 THEN MagArg("Quantity", "VEGAmag", Mag(0, 1))
                 ELSE M_sun
        IN  IF M.type # "Quantity"
            THEN {Solar("raise", "AttributeError", Zero, M)}
            ELSE IF ~has_physical_unit(M.unit)
            THEN {Solar("raise", "UnitTypeError", Zero, M)}
            ELSE {Solar("ok", "", mag_to_physical(M.mag), M)}

\* What a magnitude function returns once solar_flux gave s.
magnitude_eqv(s, to, kind, q) ==
    IF s.status = "empty" THEN EqvReturn(<<>>)
    ELSE IF s.status = "raise" THEN EqvRaise(s.exc)
    ELSE EqvReturn(<<Equivalency(physical_unit(s.M_sun.unit), to, kind,
                                 s.f_sun, q)>>)

magnitude_reflectance(xsec, wfb, M_sun) ==
    {magnitude_eqv(s, "1/sr", "reflectance", xsec) : s \in solar_flux(wfb, M_sun)}

magnitude_xsection(ref, wfb, M_sun) ==
    {magnitude_eqv(s, "km2", "xsection", ref) : s \in solar_flux(wfb, M_sun)}

(***************************************************************************)
(* The calls of the model.                                                 *)
(***************************************************************************)
Wfbs == {None, PyVal("Quantity", "0.55 um"), PyVal("str", "V"), PyVal("int", "7")}

MSuns ==
    {MSunNone,
     MagArg("Quantity", "VEGAmag", Mag(-2, 0)),
     MagArg("Quantity", "JMmag", Mag(-2, 0)),
     MagArg("Quantity", "mag", Mag(-2, 0)),
     MagArg("float", "", Mag(-2, 0))}

Xsecs == {Quantity(Zero, "au2"), Quantity(Rat(3, 1), "km2")}

Refs == {Quantity(Zero, "1/sr"), Quantity(Rat(1, 2), "1/sr")}

\* The magnitudes converted.
Mags == {Mag(0, 0), Mag(2, 0)}

NoConv ==
    [i |-> 0, mag |-> NoMag, x |-> Zero, y |-> Zero, x_back |-> Zero,
     mag_back |-> NoMag]

Called(fn, arg, wfb, M_sun, r) ==
    /\ eqv' = [r EXCEPT !.fn = fn, !.arg = arg, !.wfb = wfb, !.M_sun = M_sun]
    /\ eqv_prev' = eqv
    /\ conv' = NoConv
    /\ UNCHANGED synphot
    /\ UNCHANGED <<archiveVars, vegaVars, comaVars>>

SpectralDensityVega(wfb) ==
    \E r \in spectral_density_vega(wfb) :
        Called("spectral_density_vega", NoQuantity, wfb, MSunNone, r)

MagnitudeReflectance(xsec, wfb, M_sun) ==
    \E r \in magnitude_reflectance(xsec, wfb, M_sun) :
        Called("magnitude_reflectance", xsec, wfb, M_sun, r)

MagnitudeXsection(ref, wfb, M_sun) ==
    \E r \in magnitude_xsection(ref, wfb, M_sun) :
        Called("magnitude_xsection", ref, wfb, M_sun, r)

\* Quantity.to with the equivalencies of the last call: a magnitude is taken
\* to its flux, through equivalency i, and back.
Convert(i, m) ==
    /\ eqv.status = "return"
    /\ i \in 1..Len(eqv.eqv)
    /\ LET e == eqv.eqv[i]
           x == mag_to_physical(m)
           y == Forward(e, x)
           x_back == Backward(e, y)
       IN  conv' = [i |-> i, mag |-> m, x |-> x, y |-> y, x_back |-> x_back,
                    mag_back |-> physical_to_mag(x_back)]
    /\ UNCHANGED <<synphot, eqv, eqv_prev>>
    /\ UNCHANGED <<archiveVars, vegaVars, comaVars>>

(***************************************************************************)
(* sbpy.spectroscopy.coma: the Scattered model, as its test uses it.       *)
(* Lengths rh and delta are in au, cross_section in km2, wavelengths in um *)
(* and the spectral gradient S in 1/um; flux densities are in W/(m2 um).   *)
(***************************************************************************)
NoComa == [rh |-> Zero, delta |-> Zero, cross_section |-> Zero, S |-> Zero]

NoComaOut == [w |-> Zero, value |-> Zero, model |-> NoComa, done |-> FALSE]

Sub(a, b) == Add(a, Mul(Rat(-1, 1), b))

\* The wavelengths of the test, 2.0 um and 2.2 um.
Waves == {Rat(2, 1), Rat(11, 5)}

\* sun.observe(w, unit=unit), sun(w, unit=unit): the spectrum of the model.
sun_observe(w) == IF w = Rat(2, 1) THEN Rat(7, 1) ELSE Rat(5, 1)

\* The expected value of the test without reddening:
\* cross_section * sun / pi / rh^2 / delta^2, taken to W/(m2 um).
expected_gray(cross_section, w, rh, delta) ==
    Mul(Div(Div(Div(Mul(cross_section, sun_observe(w)), SymP(1)),
                Mul(rh, rh)),
            Mul(delta, delta)),
        SymK(-2))

\* R = 1 + (w - 0.55 um) * S
expected_R(w, S) == Add(Rat(1, 1), Mul(Sub(w, Rat(11, 20)), S))

\* The expected value of the test with reddening.
expected(cross_section, w, rh, delta, S) ==
    Mul(Div(Div(Div(Mul(Mul(cross_section, sun_observe(w)), expected_R(w, S)),
                    SymP(1)),
                Mul(rh, rh)),
            Mul(delta, delta)),
        SymK(-2))

\* A variant of the reddening that measures the wavelength from zero.
reddening_from_zero(w, S) == Add(Rat(1, 1), Mul(w, S))

\* The model's reddening factor at w for the gradient S.
reddening(w, S) == Add(Rat(1, 1), Mul(Sub(w, Rat(11, 20)), S))

\* Scattered.evaluate: the sunlight scattered by the cross-section, reddened,
\* at rh from the Sun and delta from the observer.
evaluate(model, w) ==
    LET F == Mul(sun_observe(w), reddening(w, model.S))
        spread == Mul(SymP(1), Mul(Mul(model.rh, model.rh),
                                   Mul(model.delta, model.delta)))
    IN  Mul(Div(Mul(model.cross_section, F), spread), SymK(-2))

\* The ephemerides and parameters of the model.
Distances == {Rat(1, 1), Rat(2, 1)}
CrossSections == {Rat(1, 1), Rat(3, 1)}
Gradients == {Zero, Rat(1, 10)}

\* s = Scattered(eph, unit, cross_section=cross_section, S=S)
NewScattered(rh, delta, cross_section, S) ==
    /\ coma' = [rh |-> rh, delta |-> delta, cross_section |-> cross_section,
                S |-> S]
    /\ UNCHANGED <<coma_out, coma_prev>>
    /\ UNCHANGED <<archiveVars, unitsVars, vegaVars>>

\* s.S = S
SetS(S) ==
    /\ coma # NoComa
    /\ coma' = [coma EXCEPT !.S = S]
    /\ UNCHANGED <<coma_out, coma_prev>>
    /\ UNCHANGED <<archiveVars, unitsVars, vegaVars>>

\* s(w)
Evaluate(w) ==
    /\ coma # NoComa
    /\ coma_out' = [w |-> w, value |-> evaluate(coma, w), model |-> coma,
                    done |-> TRUE]
    /\ coma_prev' = coma_out
    /\ UNCHANGED coma
    /\ UNCHANGED <<archiveVars, unitsVars, vegaVars>>

(***************************************************************************)
(* The specifications.                                                     *)
(***************************************************************************)
StoreIdle ==
    /\ ast_file = [len |-> 0] /\ com_file = [len |-> 0]
    /\ ret = NoRet /\ handles = NoHandles
NameIdle == idx = <<>> /\ found = NoFound /\ history = <<>>
FetchIdle == fs = <<>> /\ fetched = NoFetch
SchemaIdle == block = <<>> /\ decoded = NoDecode /\ encoded = NoEncode
ArchiveIdle == StoreIdle /\ NameIdle /\ FetchIdle /\ SchemaIdle
UnitsIdle ==
    synphot = FALSE /\ eqv = NoEqv /\ eqv_prev = NoEqv /\ conv = NoConv
VegaIdle == default_vega = InitialVega /\ vega_ret = NoVegaRet
ComaIdle == coma = NoComa /\ coma_out = NoComaOut /\ coma_prev = NoComaOut

\* The record store over one archive.
Init ==
    /\ ast_file \in AstFiles
    /\ com_file \in ComFiles
    /\ ret = NoRet
    /\ handles = NoHandles
    /\ NameIdle /\ FetchIdle /\ SchemaIdle
    /\ UnitsIdle /\ VegaIdle /\ ComaIdle

Next ==
    \/ ReadHeaders
    \/ \E record \in Records : ReadRecord(record)
    \/ AsteroidDb
    \/ CometDb
    \/ EntireDb

Spec == Init /\ [][Next]_vars

\* The name searches over one index file.
InitName ==
    /\ idx \in {[i \in 1..Len(l) |-> IndexLine(l[i])] : l \in EntryLists(MaxLines)}
    /\ found = NoFound
    /\ history = [first |-> [q \in Queries |-> NoFound], repeated |-> FALSE]
    /\ StoreIdle /\ FetchIdle /\ SchemaIdle
    /\ UnitsIdle /\ VegaIdle /\ ComaIdle

NextName ==
    \/ \E name \in Queries : StringRecordFromName(name)
    \/ \E name \in Queries : RecordFromName(name)

SpecName == InitName /\ [][NextName]_vars

\* The archive fetch over the local file system.
InitFetch ==
    /\ fs \in FileSystems
    /\ fetched = NoFetch
    /\ StoreIdle /\ NameIdle /\ SchemaIdle
    /\ UnitsIdle /\ VegaIdle /\ ComaIdle

NextFetch == \E update \in BOOLEAN : DownloadDastcom5(update)

SpecFetch == InitFetch /\ [][NextFetch]_vars

\* Decoding and re-encoding one record-sized block.
InitSchema ==
    /\ block \in Blocks
    /\ decoded = NoDecode
    /\ encoded = NoEncode
    /\ StoreIdle /\ NameIdle /\ FetchIdle
    /\ UnitsIdle /\ VegaIdle /\ ComaIdle

NextSchema == Decode \/ Encode

SpecSchema == InitSchema /\ [][NextSchema]_vars

\* Every lookup and bulk read over one small archive: each binary file
\* empty or full, one bias and one pair of markers, an index of at most one
\* line.
LookupQueries == {<<"e", "R", "o", "s">>, <<"(">>}

InitLookups ==
    /\ ast_file \in {f \in AstFiles :
                       /\ f.len \in {0, AstStride * MaxSlots}
                       /\ f.IBIAS0 = f.IBIAS1
                       /\ f.ENDPT1 = Field(1, MarkerWidth, "right")
                       /\ f.ENDPT2 = Field(MaxRec, MarkerWidth, "right")}
    /\ com_file \in {f \in ComFiles :
                       /\ f.len \in {0, ComStride * MaxSlots}
                       /\ f.IBIAS2 = MaxRec}
    /\ ret = NoRet
    /\ handles = NoHandles
    /\ idx \in {[i \in 1..Len(l) |-> IndexLine(l[i])] : l \in EntryLists(1)}
    /\ found = NoFound
    /\ history = [first |-> [q \in Queries |-> NoFound], repeated |-> FALSE]
    /\ FetchIdle /\ SchemaIdle
    /\ UnitsIdle /\ VegaIdle /\ ComaIdle

NextLookups ==
    \/ ReadHeaders
    \/ \E record \in Records : ReadRecord(record)
    \/ \E record \in Records : OrbitFromRecord(record)
    \/ AsteroidDb
    \/ CometDb
    \/ EntireDb
    \/ \E name \in LookupQueries : StringRecordFromName(name)
    \/ \E name \in LookupQueries : RecordFromName(name)

SpecLookups == InitLookups /\ [][NextLookups]_vars

\* The unit equivalencies, with the default Vega spectrum in effect.
InitUnits ==
    /\ synphot \in BOOLEAN
    /\ eqv = NoEqv /\ eqv_prev = NoEqv /\ conv = NoConv
    /\ ArchiveIdle /\ VegaIdle /\ ComaIdle

NextUnits ==
    \/ \E wfb \in Wfbs : SpectralDensityVega(wfb)
    \/ \E xsec \in Xsecs, wfb \in Wfbs, M_sun \in MSuns :
          MagnitudeReflectance(xsec, wfb, M_sun)
    \/ \E ref \in Refs, wfb \in Wfbs, M_sun \in MSuns :
          MagnitudeXsection(ref, wfb, M_sun)
    \/ \E i \in 1..2, m \in Mags : Convert(i, m)

SpecUnits == InitUnits /\ [][NextUnits]_vars

\* The default_vega science state.
InitVega ==
    /\ default_vega = InitialVega
    /\ vega_ret = NoVegaRet
    /\ ArchiveIdle /\ UnitsIdle /\ ComaIdle

NextVega ==
    \/ \E value \in VegaValues : Set(value)
    \/ \E value \in VegaValues : Enter(value)
    \/ Exit
    \/ FromDefault

SpecVega == InitVega /\ [][NextVega]_vars

\* One Scattered model, built, changed and evaluated.
InitComa ==
    /\ coma = NoComa /\ coma_out = NoComaOut /\ coma_prev = NoComaOut
    /\ ArchiveIdle /\ UnitsIdle /\ VegaIdle

NextComa ==
    \/ \E rh \in Distances, delta \in Distances,
          cross_section \in CrossSections, S \in Gradients :
            NewScattered(rh, delta, cross_section, S)
    \/ \E S \in Gradients : SetS(S)
    \/ \E w \in Waves : Evaluate(w)

SpecComa == InitComa /\ [][NextComa]_vars

(***************************************************************************)
(* Properties of the record store.                                         *)
(***************************************************************************)
\* The header of the asteroid file can be read, with markers e1 <= e2.
HeaderIs(e1, e2) ==
    /\ ast_file.len >= 86
    /\ \E j \in {"left", "right"} :
          /\ ast_file.ENDPT1 = Field(e1, MarkerWidth, j)
          /\ ast_file.ENDPT2 = Field(e2, MarkerWidth, j)

\* C1: read_record(r) selects exactly one (file, bias, stride, schema):
\* r <= ENDPT1 reads the asteroid file at 835*(r - IBIAS0 - 1),
\* ENDPT1 < r <= ENDPT2 reads it at 835*(r - IBIAS1 - 1), and r > ENDPT2
\* reads the comet file at 976*(r - IBIAS2 - 1) with the comet schema; the
\* boundaries r = ENDPT1 and r = ENDPT2 belong to the lower range.
C1_Trichotomy ==
    \A m \in Markers :
        (ret.op = "read_record" /\ HeaderIs(m[1], m[2])
            /\ (ret.arg > m[2] => com_file.len >= 82)) =>
          LET r == ret.arg
          IN  /\ r <= m[1] =>
                    /\ ret.file = "ast" /\ ret.dtype = "AST_DTYPE"
                    /\ ret.phis_rec = 835 * (r - ast_file.IBIAS0 - 1)
              /\ (m[1] < r /\ r <= m[2]) =>
                    /\ ret.file = "ast" /\ ret.dtype = "AST_DTYPE"
                    /\ ret.phis_rec = 835 * (r - ast_file.IBIAS1 - 1)
              /\ r > m[2] =>
                    /\ ret.file = "com" /\ ret.dtype = "COM_DTYPE"
                    /\ ret.phis_rec = 976 * (r - com_file.IBIAS2 - 1)

\* C1's case: the record at the upper end of the numbered range, ENDPT1,
\* read with IBIAS0 where IBIAS1 would give another offset, and decoded.
C1_Witness ==
    \E m \in Markers :
        /\ ret.op = "read_record" /\ HeaderIs(m[1], m[2])
        /\ m[1] < m[2] /\ ret.arg = m[1]
        /\ ast_file.IBIAS0 # ast_file.IBIAS1
        /\ ret.status = "return" /\ Len(ret.data) = 1

\* C2: a read_record whose record number lies outside the declared ranges
\* (r <= 0 included) or whose offset is at or beyond the end of the file
\* fails; what it returns is never empty and never the header slot.
C2_OutOfRangeFails ==
    ret.op = "read_record" =>
        /\ ret.arg <= 0 => ret.status = "raise"
        /\ ret.status = "return" =>
              /\ ret.phis_rec > 0
              /\ (ret.file = "ast" /\ ret.phis_rec >= ast_file.len) => ret.data # <<>>
              /\ (ret.file = "com" /\ ret.phis_rec >= com_file.len) => ret.data # <<>>

\* C3: a read that finds fewer bytes than its schema needs (a file that is
\* not empty but shorter than its header, a body record cut short by the end
\* of the file) fails: no empty header and no empty record is returned.
C3_TruncationFails ==
    /\ (ret.op = "read_headers" /\ ast_file.len > 0 /\ com_file.len > 0
            /\ (ast_file.len < 86 \/ com_file.len < 82)) =>
          ret.status = "raise"
    /\ (ret.op = "read_record" /\ ret.status = "return") =>
          LET len == IF ret.file = "ast" THEN ast_file.len ELSE com_file.len
          IN  (ret.phis_rec < len) => ret.data # <<>>

\* The names of a column list.
Names(columns) == {columns[i][1] : i \in 1..Len(columns)}

\* C8: the merged view has one common column set holding the record id, the
\* element block, the absolute magnitude H, the MOID and the name; the
\* columns taken from the two schemas agree in name and type position by
\* position, and no class-specific field is kept.  Stated for an archive
\* that holds at least one asteroid and one comet record.
C8_CommonColumns ==
    (ret.op = "entire_db" /\ ret.status = "return"
        /\ ast_file.len >= 2 * 835 /\ com_file.len >= 2 * 976) =>
        /\ {"NO", "EPOCH", "A", "EC", "IN", "OM", "W", "MA", "H", "MOID"}
              \subseteq Names(ret.columns)
        /\ entire_columns(AST_DTYPE) = entire_columns(COM_DTYPE)
        /\ Names(ret.columns) \subseteq Names(AST_DTYPE) \cap Names(COM_DTYPE)

\* C9: row i (from 0) of a bulk read of the asteroid file is the record at
\* byte 835*(i+1), row i of the comet file the one at 976*(i+1), and
\* read_record(r) for any r that resolves to that file and offset returns
\* the same bytes decoded with the same schema.
C9_BulkMatchesResolver ==
    (ret.op \in {"asteroid_db", "comet_db", "entire_db"}
        /\ ret.status = "return") =>
      \A i \in 1..Len(ret.data) : \A r \in Records :
        LET one == read_record(r)
            row == ret.data[i]
            at  == IF row.file = "ast" THEN 835 * i ELSE 976 * i
        IN  (one.status = "return" /\ one.file = row.file /\ one.phis_rec = at)
              => one.data = <<row>>

\* C9's case: a bulk read with at least two rows, the second of which some
\* record number resolves to.
C9_Witness ==
    /\ ret.op = "asteroid_db" /\ ret.status = "return" /\ Len(ret.data) >= 2
    /\ \E r \in Records :
          /\ read_record(r).status = "return"
          /\ read_record(r).file = "ast"
          /\ read_record(r).data = <<ret.data[2]>>



(***************************************************************************)
(* Properties of the name search.                                          *)
(***************************************************************************)
\* The line contains the text, compared case-insensitively character by
\* character, with a word boundary on both sides.
ContainsWord(text, line) ==
    LET t == casefold(text)
        l == casefold(line)
    IN  \E i \in 0..(Len(l) - Len(t)) :
            /\ WordBoundary(l, i)
            /\ \A j \in 1..Len(t) : l[i + j] = t[j]
            /\ WordBoundary(l, i + Len(t))

\* C4: string_record_from_name takes the search string as literal text: it
\* raises for no query and returns exactly the index lines that contain the
\* string, compared case-insensitively, as a whole word.
C4_LiteralWholeWord ==
    found.op = "string_record_from_name" =>
        /\ found.status = "return"
        /\ found.lines = SelectSeq(idx, LAMBDA line : ContainsWord(found.name, line))

\* C5: record_from_name returns, in index order, one record number per
\* matching line, the number written in the line's first 6 characters, and
\* the empty list, without raising, when no line matches.
C5_OneRecordPerLine ==
    found.op = "record_from_name" =>
        /\ found.status = "return"
        /\ found.records =
              [i \in 1..Len(SelectSeq(idx, LAMBDA l : ContainsWord(found.name, l))) |->
                  (CHOOSE e \in Entries :
                      IndexLine(e) =
                        SelectSeq(idx, LAMBDA l : ContainsWord(found.name, l))[i])[1]]

\* C6: a later record_from_name call for a query gives what the first call
\* for that query gave, whatever was looked up in between.
C6_Idempotent ==
    found.op = "record_from_name" =>
        LET first == history.first[found.name]
        IN  /\ first.status = found.status
            /\ first.exc = found.exc
            /\ first.records = found.records

\* C6's case: a query asked again after another query was answered, with a
\* result that is not empty.
C6_Witness ==
    /\ found.op = "record_from_name" /\ history.repeated
    /\ found.status = "return" /\ Len(found.records) >= 2
    /\ \E q \in Queries : q # found.name /\ history.first[q].op # "none"

(***************************************************************************)
(* Properties of the archive fetch.                                        *)
(***************************************************************************)
\* C7: download_dastcom5(update=False) with the archive directory already
\* there raises FileExistsError before any side effect: nothing is removed,
\* downloaded, extracted or written, and the file system is as it was.
C7_RefusesWithoutEffect ==
    (fetched.status # "none" /\ ~fetched.update
        /\ fetched.before.dastcom5_dir.state # "absent") =>
      /\ fetched.status = "raise"
      /\ fetched.exc = "FileExistsError"
      /\ fetched.effects = <<>>
      /\ fs = fetched.before

\* C7's case: a call without update that found a complete archive and an
\* old zip file beside it.
C7_Witness ==
    /\ fetched.status = "raise" /\ ~fetched.update
    /\ fetched.before.dastcom5_dir.state = "complete"
    /\ fetched.before.zip.state = "zip"

(***************************************************************************)
(* Properties of the schemas.                                              *)
(***************************************************************************)
\* The fields of the schema that hold byte p (1-based) of an item.
FieldsHolding(dtype, p) ==
    {k \in 1..Len(dtype.fields) :
        dtype.offsets[k] < p /\ p <= dtype.offsets[k] + dtype.fields[k][3]}

C11_HandlesReleased == handles = NoHandles

\* C11's case: a read_record that raised in seek and a name search that
\* raised while reading the index have both run.
C11_Witness ==
    /\ ret.op = "read_record" /\ ret.status = "raise" /\ ret.exc = "OSError"
    /\ found.op = "string_record_from_name" /\ found.status = "raise"
    /\ handles = NoHandles

\* C12: every lookup and bulk read leaves the two binary files, the name
\* index and the local file system as they were.
C12_LookupsLeaveArchive ==
    [][/\ ast_file' = ast_file
       /\ com_file' = com_file
       /\ idx' = idx
       /\ fs' = fs]_vars

\* C12's case: the merged view and a name lookup have run over binary files
\* and an index that are not empty.
C12_Witness ==
    /\ ret.op = "entire_db" /\ ret.status = "return"
    /\ found.op = "record_from_name" /\ found.status = "return"
    /\ found.records # <<>>
    /\ ast_file.len > 0 /\ com_file.len > 0 /\ idx # <<>>

(***************************************************************************)
(* C13, C14: the magnitude equivalencies (SpecUnits).                      *)
(***************************************************************************)
\* The last two calls were the same function with the same first argument
\* and the same wfb.
SameCall ==
    /\ eqv.fn = eqv_prev.fn
    /\ eqv.arg = eqv_prev.arg
    /\ eqv.wfb = eqv_prev.wfb

\* C13: in magnitude_reflectance and magnitude_xsection a wfb that is not
\* None overrides M_sun: two calls that differ in M_sun only give the same
\* result; with wfb None the equivalency is built from M_sun, or from the
\* default -26.77471503 VEGAmag when M_sun is None too.
C13_WfbOverridesMSun ==
    eqv.fn \in {"magnitude_reflectance", "magnitude_xsection"} =>
      /\ (eqv.wfb # None /\ SameCall) =>
            /\ eqv.status = eqv_prev.status
            /\ eqv.exc = eqv_prev.exc
            /\ eqv.eqv = eqv_prev.eqv
      /\ (eqv.wfb = None /\ eqv.status = "return") =>
            LET M == IF eqv.M_sun = MSunNone
                     THEN MagArg("Quantity", "VEGAmag", Mag(0, 1))
                     ELSE eqv.M_sun
            IN  /\ Len(eqv.eqv) = 1
                /\ eqv.eqv[1].c = mag_to_physical(M.mag)
                /\ eqv.eqv[1].from = physical_unit(M.unit)

\* C13's case: the same call with a wfb, once with a solar magnitude that
\* has no physical unit and once with one in the Johnson-Morgan system, has
\* returned an equivalency.
C13_Witness ==
    /\ eqv.fn = "magnitude_xsection" /\ SameCall
    /\ eqv.wfb # None
    /\ eqv.status = "return" /\ eqv.eqv # <<>>
    /\ eqv_prev.M_sun.unit = "mag" /\ eqv.M_sun.unit = "JMmag"

C15_ValidatesOnAssignment ==
    /\ vega_ret.op \in {"set", "enter"} =>
          /\ (vega_ret.arg.type = "str" /\ vega_ret.arg.name \in sources) =>
                /\ vega_ret.status = "return"
                /\ default_vega._value = VegaOf(vega_ret.arg.name)
          /\ (vega_ret.arg.type = "str" /\ vega_ret.arg.name \notin sources) =>
                vega_ret.status = "raise" /\ vega_ret.exc = "ValueError"
          /\ vega_ret.arg.type = "Vega" =>
                vega_ret.status = "return" /\ default_vega._value = vega_ret.arg
          /\ vega_ret.arg.type \notin {"str", "Vega"} =>
                vega_ret.status = "raise" /\ vega_ret.exc = "TypeError"
    /\ (vega_ret.op \in {"set", "enter"} /\ vega_ret.status = "raise") =>
          default_vega._value = vega_ret.before

(***************************************************************************)
(* C16: the Scattered coma model (SpecComa).                               *)
(***************************************************************************)
\* The last two evaluations were at the same wavelength, of models that
\* agree in everything but the named parameter.
SameBut(param) ==
    /\ coma_out.done /\ coma_prev.done
    /\ coma_out.w = coma_prev.w
    /\ \A p \in {"rh", "delta", "cross_section", "S"} \ {param} :
          coma_out.model[p] = coma_prev.model[p]

Tiles(data, stride, len) ==
    \A i \in 1..Len(data) :
        /\ data[i].at = stride * i
        /\ data[i].at + stride <= len

\* C17: the strides of the offset arithmetic and the start offsets of the
\* bulk reads are the sizes of the schemas: the widths of AST_DTYPE sum to
\* 835, those of COM_DTYPE to 976, each header layout fits in one slot, and
\* the records read lie slot after slot behind a header of one slot.
C17_StrideIsSchemaSize ==
    /\ AstDtype.itemsize = AstStride /\ AstSeek = AstStride
    /\ ComDtype.itemsize = ComStride /\ ComSeek = ComStride
    /\ AstHeaderDtype.itemsize <= AstStride
    /\ ComHeaderDtype.itemsize <= ComStride
    /\ (ret.op = "asteroid_db" /\ ret.status = "return") =>
          Tiles(ret.data, AstDtype.itemsize, ast_file.len)
    /\ (ret.op = "comet_db" /\ ret.status = "return") =>
          Tiles(ret.data, ComDtype.itemsize, com_file.len)
    /\ (ret.op = "read_record" /\ ret.status = "return" /\ ret.data # <<>>) =>
          LET size == IF ret.file = "ast" THEN AstDtype.itemsize
                      ELSE ComDtype.itemsize
          IN  /\ ret.phis_rec % size = 0
              /\ ret.data[1].at = ret.phis_rec

\* C17's case: a bulk read has returned two asteroid records, and a record
\* read has returned a comet record.
C17_Witness ==
    \/ ret.op = "asteroid_db" /\ Len(ret.data) >= 2
    \/ ret.op = "read_record" /\ ret.file = "com" /\ ret.data # <<>>
          /\ ret.phis_rec > 0

(***************************************************************************)
(* C18: an update of the archive (SpecFetch).                              *)
(***************************************************************************)
\* The call returned, or raised in the download or in the extraction.
ReturnedOrFailedLate ==
    \/ fetched.status = "return"
    \/ fetched.status = "raise" /\ fetched.exc = "URLError"
    \/ fetched.status = "raise"
          /\ \E i \in 1..Len(fetched.effects) : fetched.effects[i] = "extractall"

\* C18: after download_dastcom5(update=True) over a complete archive has
\* returned or raised (download failure, bad zip, extraction failure), the
\* archive directory holds a complete archive, the previous one or the new
\* one, and after a normal return the zip file is gone.
C18_UpdateNeverPartial ==
    (fetched.update /\ ReturnedOrFailedLate
        /\ fetched.before.dastcom5_dir.state = "complete") =>
      /\ fs.dastcom5_dir.state = "complete"
      /\ fetched.status = "return" => fs.zip = Absent
====
